---------------------------- MODULE Spec2Model ----------------------------
(***************************************************************************)
(* Model of the hybrid retrieval subsystem of the Automation Generator:    *)
(* the MongoDB class of utils/MongoDBFunctions.py (search_mongodb and its  *)
(* stages, _merge_search_results, _calculate_relevance_score,              *)
(* add_solution_to_mongodb) together with the legacy writer of             *)
(* MongoDBFunctions.py that shares the same collection.                    *)
(*                                                                         *)
(* Conventions.                                                            *)
(*  - A Python str is a sequence of one-character strings.                 *)
(*  - A Python dict / a stored document is a TLA+ record; an absent key is *)
(*    an absent field (Get gives dict.get).                                *)
(*  - Floating point scores are exact fixed-point integers:                *)
(*    every score is in units of 1/100 (0.9 is 90, 12.0 is 1200, 8.6 is   *)
(*    860); the store's native text scores are drawn with one decimal, so  *)
(*    that the products by 0.8 and 0.3 are exact.                          *)
(*  - A document's _id is its position in the collection (documents are    *)
(*    never removed) and timestamps are days; two inserts of the same day  *)
(*    are ordered by insertion, as datetime.now() is.                      *)
(***************************************************************************)
EXTENDS Integers, Sequences, FiniteSets, TLC

(***************************************************************************)
(* Bounds of the model.                                                    *)
(***************************************************************************)
MaxDocs == 2
MaxLimit == 2
MaxDay == 30
MaxMergeLen == 2
MaxBatch == 2
MaxRatings == 1
MaxRetries == 4
MaxRuns == 2

(***************************************************************************)
(* Program constants.                                                      *)
(***************************************************************************)
MIN_QUERY_LEN == 2
MAX_QUERY_LEN == 100
MIN_CONTENT_LEN == 50
EMBEDDING_DIM == 768
RECENT_DAYS == 30

\* Python's None where a str is expected: a one-element sequence whose
\* element is no character, so it equals no str
None == <<"None">>

(***************************************************************************)
(* Python helpers.                                                         *)
(***************************************************************************)
Min(a, b) == IF a <= b THEN a ELSE b

Max(a, b) == IF a >= b THEN a ELSE b

\* dict.get(key, default)
Get(d, k, default) == IF k \in DOMAIN d THEN d[k] ELSE default

\* d[key] = v on a dict
Put(d, k, v) == (k :> v) @@ d

\* faulty variant: nothing is cut
TakeAll(s, n) == s

\* s[:n] for n >= 0
Take(s, n) == SubSeq(s, 1, Min(n, Len(s)))

IsSpace(c) == c \in {" ", "\n", "\t"}

\* str.strip()
Strip(s) ==
    LET solid == {i \in 1..Len(s) : ~IsSpace(s[i])}
    IN  IF solid = {} THEN <<>>
        ELSE SubSeq(s, CHOOSE i \in solid : \A j \in solid : i <= j,
                       CHOOSE i \in solid : \A j \in solid : i >= j)

LowerChar(c) == CASE c = "A" -> "a"
                  [] c = "B" -> "b"
                  [] c = "C" -> "c"
                  [] c = "D" -> "d"
                  [] c = "E" -> "e"
                  [] OTHER -> c

\* str.lower()
Lower(s) == [i \in 1..Len(s) |-> LowerChar(s[i])]

\* the positions where sub occurs in s
Occurrences(s, sub) ==
    {i \in 1..(Len(s) - Len(sub) + 1) : SubSeq(s, i, i + Len(sub) - 1) = sub}

\* sub in s
Contains(s, sub) == Occurrences(s, sub) # {}

\* s.count(sub): non-overlapping occurrences, scanning from the left
RECURSIVE CountFrom(_, _, _)
CountFrom(s, sub, from) ==
    LET next == {i \in Occurrences(s, sub) : i >= from}
    IN  IF next = {} THEN 0
        ELSE 1 + CountFrom(s, sub, (CHOOSE i \in next : \A j \in next : i <= j) + Len(sub))

Count(s, sub) == IF sub = <<>> THEN Len(s) + 1 ELSE CountFrom(s, sub, 1)

\* s.split(): the maximal runs of non-whitespace characters
Split(s) ==
    LET starts == {i \in 1..Len(s) : ~IsSpace(s[i]) /\ (i = 1 \/ IsSpace(s[i - 1]))}
        ends == {i \in 1..Len(s) : ~IsSpace(s[i]) /\ (i = Len(s) \/ IsSpace(s[i + 1]))}
        Nth(set, k) == CHOOSE i \in set : Cardinality({j \in set : j <= i}) = k
    IN  [k \in 1..Cardinality(starts) |-> SubSeq(s, Nth(starts, k), Nth(ends, k))]

Repeat(s, n) == [i \in 1..(n * Len(s)) |-> s[((i - 1) % Len(s)) + 1]]

Range(f) == {f[i] : i \in DOMAIN f}

\* sum(s)
RECURSIVE SumSeq(_)
SumSeq(s) == IF s = <<>> THEN 0 ELSE Head(s) + SumSeq(Tail(s))


(***************************************************************************)
(* Inputs.                                                                 *)
(***************************************************************************)
LongSummary == Repeat(<<"a", "b", "c", " ">>, 13)

ShortSummary == <<"a", "b", "c">>

\* 51 characters, 49 once trimmed
PaddedSummary == <<" ">> \o Repeat(<<"a">>, MIN_CONTENT_LEN - 1) \o <<" ">>

LongScript == Repeat(<<"e">>, MIN_CONTENT_LEN)

ShortScript == Repeat(<<"e">>, MIN_CONTENT_LEN - 1)

LongQuery == Repeat(<<"a", "b", "c", " ">>, 26)

Domains == {<<"A", "b", "c">>, <<"d", "e">>, <<" ">>}

Summaries == {LongSummary, ShortSummary, PaddedSummary}

Scripts == {LongScript, ShortScript}

Queries == {None, <<>>, <<" ", "a", " ">>, <<"a", "b">>, <<" ", "a", "b", "c">>,
            <<"D", "E">>, <<"z", "z">>, LongQuery}

Limits == 1..MaxLimit

\* scores the vector operator may attach (cosine similarity, 0.5 and 0.9)
VectorScores == {50, 90}

\* scores the native text operator may attach (12.0)
TextScores == {1200}

VARIABLES
    vector_search_enabled,  \* self.vector_search_enabled and self.embedding_service
    collection,             \* db["solutions"], in insertion order
    now,                    \* datetime.now(), in days
    last,                   \* the last call: its name, arguments, outcome and trace,
                            \* and the collection as it was before the call
    vector_results,         \* arguments of _merge_search_results
    text_results,
    ratings,                \* db["ratings"], in insertion order
    migrations              \* the migration runs under way: the documents each
                            \* selected and how far it got

vars == <<vector_search_enabled, collection, now, last, vector_results, text_results,
         ratings, migrations>>

Ids == 1..Len(collection)

(***************************************************************************)
(* Sorting: list.sort(key=..., reverse=True) is stable: equal keys keep    *)
(* their order.                                                            *)
(***************************************************************************)
\* faulty variant: x goes before the elements of equal key
InsertDescUnstable(sorted, x, key) ==
    LET lower == {i \in 1..Len(sorted) : Get(sorted[i], key, 0) <= Get(x, key, 0)}
        pos == IF lower = {} THEN Len(sorted) + 1
               ELSE CHOOSE i \in lower : \A j \in lower : i <= j
    IN  SubSeq(sorted, 1, pos - 1) \o <<x>> \o SubSeq(sorted, pos, Len(sorted))

\* x goes before the first element whose key is lower, hence after every
\* element of equal key
InsertDesc(sorted, x, key) ==
    LET lower == {i \in 1..Len(sorted) : Get(sorted[i], key, 0) < Get(x, key, 0)}
        pos == IF lower = {} THEN Len(sorted) + 1
               ELSE CHOOSE i \in lower : \A j \in lower : i <= j
    IN  SubSeq(sorted, 1, pos - 1) \o <<x>> \o SubSeq(sorted, pos, Len(sorted))

RECURSIVE SortDescFrom(_, _, _)
SortDescFrom(todo, sorted, key) ==
    IF todo = <<>> THEN sorted
    ELSE SortDescFrom(Tail(todo), InsertDesc(sorted, Head(todo), key), key)

\* results.sort(key=lambda x: x.get(key, 0), reverse=True)
SortDesc(results, key) == SortDescFrom(results, <<>>, key)


(***************************************************************************)
(* The store.                                                              *)
(***************************************************************************)
\* no call is in progress: the caller has taken the last return value
Idle == [op |-> "idle"]

Init ==
    /\ vector_search_enabled \in BOOLEAN
    /\ collection = <<>>
    /\ now = 0
    /\ last = Idle
    /\ vector_results = <<>>
    /\ text_results = <<>>
    /\ ratings = <<>>
    /\ migrations = <<>>

\* what GeminiEmbeddingService.generate_embedding may return: the provider's
\* vector (here its length), or [] after the retries failed
EmbeddingOutcomes == {EMBEDDING_DIM, 0}

\* faulty variant: the lengths taken before the trim
AddRejectedUnstripped(summary, script, domain) ==
    \/ Strip(summary) = <<>> \/ Strip(script) = <<>> \/ Strip(domain) = <<>>
    \/ Len(summary) < MIN_CONTENT_LEN
    \/ Len(script) < MIN_CONTENT_LEN

\* the validation of add_solution_to_mongodb
AddRejected(summary, script, domain) ==
    \/ Strip(summary) = <<>> \/ Strip(script) = <<>> \/ Strip(domain) = <<>>
    \/ Len(Strip(summary)) < MIN_CONTENT_LEN
    \/ Len(Strip(script)) < MIN_CONTENT_LEN

\* the document add_solution_to_mongodb inserts; embedding is the outcome of
\* generate_embedding, or 0 when the embedding service is disabled
NewSolution(summary, script, prerequisites, domain, extra_info, embedding) ==
    [domain |-> Strip(domain),
     summary |-> Strip(summary),
     script |-> Strip(script),
     prerequisites |-> Strip(prerequisites),
     extra_info |-> Strip(extra_info),
     embedding |-> embedding,
     search_metadata |->
        [has_embedding |-> embedding # 0,
         embedding_error |-> IF vector_search_enabled /\ embedding = 0
                             THEN "Failed to generate embedding" ELSE "None"],
     timestamp |-> now,
     version |-> IF embedding # 0 THEN "2.0" ELSE "1.0",
     status |-> "active"]

\* add_solution_to_mongodb called with a summary of summaries, a script of
\* scripts and a domain of domains
AddSolution(summaries, scripts, domains) ==
    /\ last = Idle
    /\ \E summary \in summaries, script \in scripts, domain \in domains :
        IF AddRejected(summary, script, domain)
        THEN /\ last' = [op |-> "add_solution_to_mongodb", before |-> collection,
                         summary |-> summary, script |-> script, domain |-> domain,
                         ret |-> FALSE, calls |-> <<>>]
             /\ UNCHANGED <<vector_search_enabled, collection, now,
                            vector_results, text_results, ratings, migrations>>
        ELSE /\ Len(collection) < MaxDocs
             /\ \E embedding \in (IF vector_search_enabled THEN EmbeddingOutcomes ELSE {0}),
                   inserted \in BOOLEAN :
                   LET calls == (IF vector_search_enabled THEN <<"embed">> ELSE <<>>)
                                \o <<"insert_one">>
                   IN  IF inserted
                       THEN /\ collection' = Append(collection,
                                    NewSolution(summary, script, <<>>, domain, <<>>,
                                                embedding))
                            /\ last' = [op |-> "add_solution_to_mongodb",
                                        before |-> collection,
                                        summary |-> summary, script |-> script,
                                        domain |-> domain, ret |-> TRUE,
                                        calls |-> calls]
                       ELSE \* insert_one raised: _handle_db_error, return False
                            /\ collection' = collection
                            /\ last' = [op |-> "add_solution_to_mongodb",
                                        before |-> collection,
                                        summary |-> summary, script |-> script,
                                        domain |-> domain, ret |-> FALSE,
                                        calls |-> calls]
             /\ UNCHANGED <<vector_search_enabled, now, vector_results, text_results, ratings, migrations>>

add_solution_to_mongodb == AddSolution(Summaries, Scripts, Domains)

\* the document the first version of the class inserts into the same
\* collection: no status, no embedding, no search_metadata, nothing stripped
LegacySolution(summary, prerequisites, script, domain, extra_info) ==
    [domain |-> domain,
     summary |-> summary,
     prerequisites |-> prerequisites,
     script |-> script,
     extra_info |-> extra_info,
     timestamp |-> now]

legacy_add_solution_to_mongodb ==
    /\ last = Idle
    /\ Len(collection) < MaxDocs
    /\ \E domain \in {d \in Domains : Strip(d) # <<>>} :
          collection' = Append(collection,
                LegacySolution(LongSummary, <<>>, LongScript, domain, <<>>))
    /\ last' = [op |-> "legacy_add_solution_to_mongodb", before |-> collection]
    /\ UNCHANGED <<vector_search_enabled, now, vector_results, text_results, ratings, migrations>>

\* time passes between two calls
Tick ==
    /\ last = Idle
    /\ now + RECENT_DAYS <= MaxDay
    /\ now' = now + RECENT_DAYS
    /\ last' = Idle
    /\ UNCHANGED <<vector_search_enabled, collection, vector_results, text_results, ratings, migrations>>

(***************************************************************************)
(* add_rating                                                              *)
(***************************************************************************)
\* "" and the str of an _id
RatingSolutionIds == {<<>>, <<"1">>}

RatingValues == {0, 5, 6}

add_rating ==
    /\ last = Idle
    /\ \E solution_id \in RatingSolutionIds, rating \in RatingValues :
          IF solution_id = <<>> \/ ~(1 <= rating /\ rating <= 5)
          THEN /\ ratings' = ratings
               /\ last' = [op |-> "add_rating", before |-> collection,
                           ret |-> FALSE, calls |-> <<>>]
          ELSE /\ Len(ratings) < MaxRatings
               /\ \E inserted \in BOOLEAN :
                     IF inserted
                     THEN /\ ratings' = Append(ratings, [solution_id |-> solution_id,
                                                         rating |-> rating,
                                                         timestamp |-> now])
                          /\ last' = [op |-> "add_rating", before |-> collection,
                                      ret |-> TRUE,
                                      calls |-> <<"ratings.insert_one">>]
                     ELSE \* insert_one raised: return False
                          /\ ratings' = ratings
                          /\ last' = [op |-> "add_rating", before |-> collection,
                                      ret |-> FALSE,
                                      calls |-> <<"ratings.insert_one">>]
    /\ UNCHANGED <<vector_search_enabled, collection, now, vector_results, text_results,
                   migrations>>


(***************************************************************************)
(* migrate_existing_data_to_vectors                                        *)
(***************************************************************************)
\* batches of one document and batches of several
BatchSizes == 1..MaxBatch

\* a run cut short by max_documents and a run that takes every document
MaxDocuments == {1, MaxDocs}

\* faulty variant: every document is selected
NeedsEmbeddingAll(doc) == TRUE

\* the filter of the selection: has_embedding is not True ($ne matches a
\* missing field too), or no search_metadata, or no embedding
NeedsEmbedding(doc) ==
    \/ "search_metadata" \notin DOMAIN doc
    \/ doc.search_metadata.has_embedding # TRUE
    \/ "embedding" \notin DOMAIN doc

\* faulty variant: the selection is not capped
SelectedIdsUncapped(max_documents) ==
    LET need == {i \in Ids : NeedsEmbedding(collection[i])}
        Nth(k) == CHOOSE i \in need : Cardinality({j \in need : j <= i}) = k
    IN  [k \in 1..Cardinality(need) |-> Nth(k)]

\* list(collection.find(filter).limit(max_documents)), in natural order
SelectedIds(max_documents) ==
    LET need == {i \in Ids : NeedsEmbedding(collection[i])}
        Nth(k) == CHOOSE i \in need : Cardinality({j \in need : j <= i}) = k
    IN  [k \in 1..Min(max_documents, Cardinality(need)) |-> Nth(k)]

\* what can happen to one document of the run:
\*   embedded      an embedding was generated and update_one modified the document
\*   marked        generate_embedding gave [] and update_one recorded the failure
\*   mark_raised   generate_embedding gave [] and update_one raised
\*   raised        an exception before or in the update of a generated embedding
\* (update_one always modifies a document it finds, since it sets a new
\* embedding_timestamp, and no document is ever removed: modified_count is
\* never 0)
DocOutcomes == {"embedded", "marked", "mark_raised", "raised"}

\* faulty variant: the document is replaced by the new fields
MigratedDocReplaced(doc, embedding, batch) ==
    [embedding |-> embedding,
     search_metadata |-> [has_embedding |-> TRUE,
                          embedding_model |-> "gemini-embedding-001"],
     version |-> "2.0"]

\* update_one $set embedding, search_metadata, version; the new
\* search_metadata has no embedding_error key (its timestamp, text preview
\* and batch number are left out)
MigratedDoc(doc, embedding, batch) ==
    Put(Put(Put(doc, "embedding", embedding),
            "search_metadata", [has_embedding |-> TRUE,
                                embedding_model |-> "gemini-embedding-001"]),
        "version", "2.0")

\* faulty variant: the failure recorded as a success
MarkedDocHasEmbedding(doc) ==
    Put(doc, "search_metadata",
        [has_embedding |-> TRUE,
         embedding_error |-> "Failed to generate embedding during migration"])

\* faulty variant: the failure also resets the embedding and the version
MarkedDocResetting(doc) ==
    Put(Put(Put(doc, "search_metadata",
                [has_embedding |-> FALSE,
                 embedding_error |-> "Failed to generate embedding during migration"]),
            "embedding", 0),
        "version", "1.0")

\* update_one $set search_metadata of the failure
MarkedDoc(doc) ==
    Put(doc, "search_metadata",
        [has_embedding |-> FALSE,
         embedding_error |-> "Failed to generate embedding during migration"])

AfterAttempt(doc, outcome, batch) ==
    CASE outcome = "embedded" -> MigratedDoc(doc, EMBEDDING_DIM, batch)
      [] outcome = "marked" -> MarkedDoc(doc)
      [] OTHER -> doc

\* faulty variant: the first failure ends the run
AttemptedUntilFailure(outcomes) ==
    LET failures == {k \in 1..Len(outcomes) : outcomes[k] # "embedded"}
    IN  IF failures = {} THEN Len(outcomes)
        ELSE CHOOSE k \in failures : \A j \in failures : k <= j

\* how many documents of the list the two loops go through: the except of
\* the inner try continues with the next document
Attempted(outcomes) == Len(outcomes)

\* faulty variant: a pause after every batch, the last included
PauseAfterEveryBatch(i, batch_size, documents) == TRUE

\* if i + batch_size < len(documents): time.sleep(2)
PauseAfter(i, batch_size, documents) == i + batch_size < Len(documents)

\* the documents of the batches from position i + 1 on, with the
\* time.sleep(2) between two batches
RECURSIVE BatchTrace(_, _, _, _)
BatchTrace(documents, outcomes, batch_size, i) ==
    IF i >= Len(documents) THEN <<>>
    ELSE [k \in 1..(Min(i + batch_size, Len(documents)) - i) |->
            [kind |-> "record", id |-> documents[i + k], outcome |-> outcomes[i + k],
             batch |-> (i \div batch_size) + 1]]
         \o (IF PauseAfter(i, batch_size, documents) THEN <<[kind |-> "sleep"]>>
             ELSE <<>>)
         \o BatchTrace(documents, outcomes, batch_size, i + batch_size)

\* the trace of a run that went through attempted documents
MigrationTrace(documents, outcomes, batch_size, attempted) ==
    BatchTrace(Take(documents, attempted), outcomes, batch_size, 0)

migrate_existing_data_to_vectors ==
    /\ last = Idle
    /\ \E batch_size \in BatchSizes, max_documents \in MaxDocuments :
          LET call == [op |-> "migrate_existing_data_to_vectors",
                       before |-> collection,
                       batch_size |-> batch_size, max_documents |-> max_documents]
              documents == SelectedIds(max_documents)
          IN  IF ~vector_search_enabled
              THEN /\ collection' = collection
                   /\ last' = call @@ [kind |-> "disabled", selected |-> <<>>,
                                      trace |-> <<>>]
              ELSE \/ \* find or count_documents raised: the outer except
                      /\ collection' = collection
                      /\ last' = call @@ [kind |-> "failed", selected |-> <<>>,
                                         trace |-> <<>>]
                   \/ /\ documents = <<>>
                      /\ collection' = collection
                      /\ last' = call @@ [kind |-> "nothing", selected |-> <<>>,
                                         trace |-> <<>>]
                   \/ /\ documents # <<>>
                      /\ \E outcomes \in [1..Len(documents) -> DocOutcomes] :
                            LET attempted == Attempted(outcomes)
                                place(i) == CHOOSE k \in 1..attempted : documents[k] = i
                            IN  /\ collection' =
                                     [i \in Ids |->
                                        IF \E k \in 1..attempted : documents[k] = i
                                        THEN AfterAttempt(collection[i], outcomes[place(i)],
                                                ((place(i) - 1) \div batch_size) + 1)
                                        ELSE collection[i]]
                                /\ last' = call @@
                                     [kind |-> "done", selected |-> documents,
                                      trace |-> MigrationTrace(documents, outcomes,
                                                               batch_size, attempted)]
    /\ UNCHANGED <<vector_search_enabled, now, vector_results, text_results, ratings, migrations>>


(***************************************************************************)
(* _merge_search_results                                                   *)
(***************************************************************************)
SCORE_CAP == 1000

\* faulty variant: the cap at 10.0 forgotten
CombinedVectorUncapped(vector_score) == vector_score * 10

\* faulty variant: the similarity is taken as a percentage
CombinedVectorPercent(vector_score) == Min(vector_score * 100, SCORE_CAP * 10)

\* min(vector_score * 10, 10.0)
CombinedVector(vector_score) == Min(vector_score * 10, SCORE_CAP)

\* text_score * 0.8
CombinedText(text_score) == (text_score * 8) \div 10

\* faulty variant: the boost weighted as a text-only score
TextBoostAsOnly(text_score) == (text_score * 8) \div 10

\* result.get('score', 0) * 0.3
TextBoost(text_score) == (text_score * 3) \div 10

\* the loop over vector_results; acc is [seen, merged]
RECURSIVE MergeVectorLoop(_, _)
MergeVectorLoop(todo, acc) ==
    IF todo = <<>> THEN acc
    ELSE LET result == Head(todo)
             result_id == result.id
         IN  IF result_id \notin acc.seen
             THEN MergeVectorLoop(Tail(todo),
                    [seen |-> acc.seen \cup {result_id},
                     merged |-> Append(acc.merged,
                        Put(Put(result, "combined_score",
                                CombinedVector(Get(result, "vector_score", 0))),
                            "search_sources", <<"vector">>))])
             ELSE MergeVectorLoop(Tail(todo), acc)

\* the inner loop of the else branch: the first merged record of that id
\* gets the boost and one more source
BoostFirst(merged, result_id, text_boost) ==
    LET hits == {i \in 1..Len(merged) : merged[i].id = result_id}
        first == CHOOSE i \in hits : \A j \in hits : i <= j
    IN  IF hits = {} THEN merged
        ELSE [merged EXCEPT ![first] =
                Put(Put(@, "combined_score", @.combined_score + text_boost),
                    "search_sources", Append(@.search_sources, "text"))]

\* faulty variant: the text loop never recognises an id
TextSeenNever(result_id, seen) == FALSE

\* the duplicate check of the text loop: result_id in seen_ids
TextSeen(result_id, seen) == result_id \in seen

\* the loop over text_results
RECURSIVE MergeTextLoop(_, _)
MergeTextLoop(todo, acc) ==
    IF todo = <<>> THEN acc
    ELSE LET result == Head(todo)
             result_id == result.id
         IN  IF ~TextSeen(result_id, acc.seen)
             THEN MergeTextLoop(Tail(todo),
                    [seen |-> acc.seen \cup {result_id},
                     merged |-> Append(acc.merged,
                        Put(Put(result, "combined_score",
                                CombinedText(Get(result, "score", 0))),
                            "search_sources", <<"text">>))])
             ELSE MergeTextLoop(Tail(todo),
                    [seen |-> acc.seen,
                     merged |-> BoostFirst(acc.merged, result_id,
                                           TextBoost(Get(result, "score", 0)))])

\* faulty variant: the test for several sources forgotten
SearchTypeByFirstSource(result) ==
    IF "vector" \in Range(Get(result, "search_sources", <<>>)) THEN "vector"
    ELSE "text"

\* the search type metadata
SearchType(result) ==
    IF Len(Get(result, "search_sources", <<>>)) > 1 THEN "hybrid"
    ELSE IF "vector" \in Range(Get(result, "search_sources", <<>>)) THEN "vector"
    ELSE "text"

\* merged_results.sort(key=combined_score, reverse=True)
MergeSort(merged) == SortDesc(merged, "combined_score")

merge_search_results(vector, text) ==
    LET afterVector == MergeVectorLoop(vector, [seen |-> {}, merged |-> <<>>])
        afterText == MergeTextLoop(text, afterVector)
        sorted == MergeSort(afterText.merged)
    IN  [i \in 1..Len(sorted) |-> Put(sorted[i], "search_type", SearchType(sorted[i]))]


(***************************************************************************)
(* _calculate_relevance_score                                              *)
(***************************************************************************)
\* faulty variant: every field weighs as the script does
FieldWeightFlat == [domain |-> 100, summary |-> 100, extra_info |-> 100,
                    prerequisites |-> 100, script |-> 100]

\* fields_weights
FieldWeight == [domain |-> 500, summary |-> 300, extra_info |-> 200,
                prerequisites |-> 150, script |-> 100]

RECURSIVE WordScore(_, _, _)
WordScore(words, field_content, weight) ==
    IF words = <<>> THEN 0
    ELSE (IF Len(Head(words)) > 2
          THEN (Count(field_content, Head(words)) * weight) \div 2
          ELSE 0)
         + WordScore(Tail(words), field_content, weight)

FieldScore(result, field, query_lower) ==
    LET field_content == Lower(Get(result, field, <<>>))
        weight == FieldWeight[field]
    IN  (IF Contains(field_content, query_lower)
         THEN Count(field_content, query_lower) * weight * 2
         ELSE 0)
        + WordScore(Split(query_lower), field_content, weight)

\* faulty variant: a record of exactly 30 days is still recent
IsRecentInclusive(days_old) == days_old <= RECENT_DAYS

\* if days_old < 30
IsRecent(days_old) == days_old < RECENT_DAYS

calculate_relevance_score(result, query) ==
    LET query_lower == Lower(query)
        fields == <<"domain", "summary", "extra_info", "prerequisites", "script">>
    IN  SumSeq([i \in 1..Len(fields) |-> FieldScore(result, fields[i], query_lower)])
        + (IF "timestamp" \in DOMAIN result /\ IsRecent(now - result.timestamp)
           THEN 100 ELSE 0)

(***************************************************************************)
(* The stages of the search. Each is the set of outcomes it can have on    *)
(* the current store: what it returns (or that it raises) and the calls it *)
(* made to the store and to the embedding provider.                        *)
(***************************************************************************)
Ret(val, calls) == [kind |-> "return", val |-> val, calls |-> calls]

Raise(calls) == [kind |-> "raise", val |-> <<>>, calls |-> calls]

\* every way the engine can rank the documents of ids with scores of scores
RankedLists(ids, scores) ==
    {r \in [1..Cardinality(ids) -> ids \X scores] :
        /\ \A i, j \in DOMAIN r : i < j => r[i][1] # r[j][1] /\ r[i][2] >= r[j][2]}

\* one ratings_collection.find per result (_get_solution_ratings)
RatingsCalls(results) == [i \in 1..Len(results) |-> "ratings.find"]

\* the filter of the $vectorSearch stage
VectorFilter(doc) ==
    /\ Get(doc, "status", "absent") = "active"
    /\ "search_metadata" \in DOMAIN doc
    /\ doc.search_metadata.has_embedding = TRUE

VectorResult(hit) == [id |-> hit[1], vector_score |-> hit[2], search_type |-> "vector"]

\* faulty variant: the length taken before the trim
QueryTooShortUnstripped(query) ==
    query = None \/ query = <<>> \/ Len(query) < MIN_QUERY_LEN

\* not query or len(query.strip()) < 2
QueryTooShort(query) ==
    query = None \/ query = <<>> \/ Len(Strip(query)) < MIN_QUERY_LEN

\* the same test in vector_search_mongodb
VectorQueryTooShort(query) ==
    query = None \/ query = <<>> \/ Len(Strip(query)) < MIN_QUERY_LEN

vector_search_mongodb(query, limit) ==
    IF ~vector_search_enabled THEN {Ret(<<>>, <<>>)}
    ELSE IF VectorQueryTooShort(query) THEN {Ret(<<>>, <<>>)}
    ELSE \* generate_query_embedding gave []
         {Ret(<<>>, <<"embed">>)}
         \cup \* collection.aggregate raised (the vector index is not
              \* configured, or any other error): except Exception gives []
         {Ret(<<>>, <<"embed", "aggregate.vectorSearch">>)}
         \cup
         {LET results == [i \in 1..Min(limit, Len(r)) |-> VectorResult(r[i])]
          IN  Ret(results, <<"embed", "aggregate.vectorSearch">> \o RatingsCalls(results)) :
            r \in RankedLists({i \in Ids : VectorFilter(collection[i])}, VectorScores)}

\* the $search stage: the text operator over summary, domain, extra_info and
\* script matches a document that shares a lower-cased word with the query
AtlasMatches(doc, query) ==
    \E f \in {"summary", "domain", "extra_info", "script"} :
        /\ f \in DOMAIN doc
        /\ Range(Split(Lower(doc[f]))) \cap Range(Split(Lower(query))) # {}

AtlasResult(hit) == [id |-> hit[1], score |-> hit[2], search_type |-> "atlas"]

\* faulty variant: a missing index is raised again like any other failure
AtlasOperationFailureRaised(index_error, calls) ==
    IF index_error THEN Raise(Append(calls, "logger.warning")) ELSE Raise(calls)

\* except OperationFailure: "index" in the message is logged as the warning
\* "Atlas search index not available" and gives [], anything else is raised
\* again
AtlasOperationFailure(index_error, calls) ==
    IF index_error THEN Ret(<<>>, Append(calls, "logger.warning")) ELSE Raise(calls)

atlas_search(query, limit) ==
    {AtlasOperationFailure(TRUE, <<"aggregate.search">>),
     AtlasOperationFailure(FALSE, <<"aggregate.search">>),
     \* except Exception
     Ret(<<>>, <<"aggregate.search">>)}
    \cup
    {LET results == [i \in 1..Min(limit, Len(r)) |-> AtlasResult(r[i])]
     IN  Ret(results, <<"aggregate.search">> \o RatingsCalls(results)) :
        r \in RankedLists({i \in Ids : AtlasMatches(collection[i], query)}, TextScores)}

\* faulty variant: half of the limit, which is 0 for a limit of 1
VectorLimitHalf(limit) == limit \div 2

\* vector_limit = max(1, limit // 2)
VectorLimit(limit) == Max(1, limit \div 2)

\* text_limit = limit - len(vector_results)
TextLimit(limit, found) == limit - Len(found)

\* the runs of hybrid_search_mongodb: the two limits it asks for, what the
\* two searches gave and what the call returns
HybridRuns(query, limit) ==
    LET vector_limit == VectorLimit(limit)
        \* self._atlas_search(query, text_limit) if text_limit > 0 else []
        texts == [text_limit \in 0..limit |->
                    IF text_limit > 0 THEN atlas_search(query, text_limit)
                    ELSE {Ret(<<>>, <<>>)}]
        \* except Exception: return self.vector_search_mongodb(query, limit)
        fallback == vector_search_mongodb(query, limit)
    IN  UNION {
          UNION {
            {[vector_limit |-> vector_limit, vector |-> v,
              text_limit |-> TextLimit(limit, v.val), text |-> t,
              outcome |-> o] :
               o \in IF t.kind = "raise"
                     THEN {Ret(w.val, v.calls \o t.calls \o w.calls) : w \in fallback}
                     ELSE {Ret(Take(merge_search_results(v.val, t.val), limit),
                               v.calls \o t.calls)}} :
            t \in texts[TextLimit(limit, v.val)]} :
          v \in vector_search_mongodb(query, vector_limit)}

hybrid_search_mongodb(query, limit) ==
    {run.outcome : run \in HybridRuns(query, limit)}

\* {"$regex": query}: the query is the pattern, unescaped. Patterns here are
\* built of literal characters and of the group parentheses "(" and ")";
\* a pattern whose parentheses do not balance is rejected by the store
RegexValid(pattern) ==
    LET opens(n) == Cardinality({i \in 1..n : pattern[i] = "("})
        closes(n) == Cardinality({i \in 1..n : pattern[i] = ")"})
    IN  /\ \A n \in 1..Len(pattern) : opens(n) >= closes(n)
        /\ opens(Len(pattern)) = closes(Len(pattern))

\* what a valid pattern matches: its characters without the parentheses,
\* which group and match nothing themselves
RegexLiteral(pattern) == SelectSeq(pattern, LAMBDA c : c \notin {"(", ")"})

\* the filter of collection.find: a case-insensitive match of the pattern in
\* one of five fields
RegexMatches(doc, query) ==
    \E f \in {"summary", "domain", "extra_info", "script", "prerequisites"} :
        /\ f \in DOMAIN doc
        /\ Contains(Lower(doc[f]), Lower(RegexLiteral(query)))

\* .sort("timestamp", -1): the latest insert first
RECURSIVE SelectIds(_, _)
SelectIds(n, query) ==
    IF n = 0 THEN <<>>
    ELSE (IF RegexMatches(collection[n], query) THEN <<n>> ELSE <<>>)
         \o SelectIds(n - 1, query)

regex_search(query, limit) ==
    {Raise(<<"find">>)}
    \cup
    IF ~RegexValid(query) THEN {}
    ELSE
    {LET found == Take(SelectIds(Len(collection), query), limit)
         results == [i \in 1..Len(found) |->
                        [id |-> found[i], search_type |-> "regex",
                         score |-> calculate_relevance_score(collection[found[i]], query)]]
     IN  Ret(SortDesc(results, "score"), <<"find">> \o RatingsCalls(results))}


(***************************************************************************)
(* search_mongodb: a run is the part of the body of the try statement      *)
(* executed so far.                                                        *)
(***************************************************************************)
StageOutcome(o) == IF o.kind = "raise" THEN "raised"
                   ELSE IF o.val # <<>> THEN "nonempty" ELSE "empty"

\* faulty variant: a non-empty result is not returned
ThenStageNoReturn(runs, name, outcomes) ==
    UNION {IF run.state # "running" THEN {run}
           ELSE {[state |-> IF o.kind = "raise" THEN "raised" ELSE "running",
                  val |-> o.val,
                  calls |-> run.calls \o o.calls,
                  stages |-> Append(run.stages,
                                    [name |-> name, outcome |-> StageOutcome(o),
                                     result |-> o.val, calls |-> o.calls])] :
                 o \in outcomes} :
           run \in runs}

\* results = stage(...); if results: return results
ThenStage(runs, name, outcomes) ==
    UNION {IF run.state # "running" THEN {run}
           ELSE {[state |-> IF o.kind = "raise" THEN "raised"
                            ELSE IF o.val # <<>> THEN "returned" ELSE "running",
                  val |-> o.val,
                  calls |-> run.calls \o o.calls,
                  stages |-> Append(run.stages,
                                    [name |-> name, outcome |-> StageOutcome(o),
                                     result |-> o.val, calls |-> o.calls])] :
                 o \in outcomes} :
           run \in runs}

\* results = self._regex_search(...); return results
LastStage(runs, name, outcomes) ==
    UNION {IF run.state # "running" THEN {run}
           ELSE {[state |-> IF o.kind = "raise" THEN "raised" ELSE "returned",
                  val |-> o.val,
                  calls |-> run.calls \o o.calls,
                  stages |-> Append(run.stages,
                                    [name |-> name, outcome |-> StageOutcome(o),
                                     result |-> o.val, calls |-> o.calls])] :
                 o \in outcomes} :
           run \in runs}

\* faulty variant: the exception leaves search_mongodb
SearchExceptReraise(run) ==
    [kind |-> IF run.state = "raised" THEN "raise" ELSE "return",
     val |-> run.val, calls |-> run.calls, stages |-> run.stages]

\* except Exception: log, _handle_db_error, return []
SearchExcept(run) ==
    [kind |-> "return",
     val |-> IF run.state = "raised" THEN <<>> ELSE run.val,
     calls |-> run.calls, stages |-> run.stages]

search_mongodb(query, limit) ==
    IF QueryTooShort(query)
    THEN {[kind |-> "return", val |-> <<>>, calls |-> <<>>, stages |-> <<>>]}
    ELSE LET sanitized_query == Take(Strip(query), MAX_QUERY_LEN)
             start == {[state |-> "running", val |-> <<>>, calls |-> <<>>,
                        stages |-> <<>>]}
             afterVector ==
                IF vector_search_enabled
                THEN ThenStage(start, "vector",
                               vector_search_mongodb(sanitized_query, limit))
                ELSE start
             afterHybrid ==
                IF vector_search_enabled
                THEN ThenStage(afterVector, "hybrid",
                               hybrid_search_mongodb(sanitized_query, limit))
                ELSE afterVector
             afterAtlas ==
                ThenStage(afterHybrid, "atlas", atlas_search(sanitized_query, limit))
             afterRegex ==
                LastStage(afterAtlas, "regex", regex_search(sanitized_query, limit))
         IN  {SearchExcept(run) : run \in afterRegex}

\* faulty variant: the annotations are written back to the documents found
StoreAfterSearchAnnotated(store, results) ==
    [i \in DOMAIN store |->
        IF \E k \in 1..Len(results) : results[k].id = i
        THEN Put(store[i], "search_type",
                 (CHOOSE r \in Range(results) : r.id = i).search_type)
        ELSE store[i]]

\* the store after a search: the stages only read (aggregate, find) and
\* annotate the dicts the driver returned
StoreAfterSearch(store, results) == store

\* search_mongodb called with a query of queries and a limit of limits
SearchFor(queries, limits) ==
    /\ last = Idle
    /\ \E query \in queries, limit \in limits :
          \E o \in search_mongodb(query, limit) :
             /\ last' = [op |-> "search_mongodb", before |-> collection,
                         query |-> query, limit |-> limit, kind |-> o.kind, val |-> o.val, calls |-> o.calls,
                         stages |-> o.stages]
             /\ collection' = StoreAfterSearch(collection, o.val)
    /\ UNCHANGED <<vector_search_enabled, now, vector_results, text_results, ratings, migrations>>

Search == SearchFor(Queries, Limits)

\* the caller takes the return value of the call
Return ==
    /\ last # Idle
    /\ last' = Idle
    /\ UNCHANGED <<vector_search_enabled, collection, now, vector_results, text_results, ratings, migrations>>

Next ==
    \/ Return
    \/ add_solution_to_mongodb
    \/ legacy_add_solution_to_mongodb
    \/ Tick
    \/ Search

Spec == Init /\ [][Next]_vars

\* the calls of one day: the store and the search without the passing of
\* time, which only the recency bonus of the regex score reads
NextSearch ==
    \/ Return
    \/ add_solution_to_mongodb
    \/ legacy_add_solution_to_mongodb
    \/ Search

SpecSearch == Init /\ [][NextSearch]_vars

\* the saves alone, with every summary, script and domain
NextSave ==
    \/ Return
    \/ add_solution_to_mongodb
    \/ legacy_add_solution_to_mongodb

SpecSave == Init /\ [][NextSave]_vars

\* the store under the operations that write to it: saves by both classes
\* and migration runs
\* the inputs of the saves that go through: both summaries above the
\* minimum, one script, the two domains that are not blank
StoreSummaries == {LongSummary, ShortSummary}

StoreScripts == {LongScript}

StoreDomains == {<<"A", "b", "c">>, <<"d", "e">>}

add_solution_store == AddSolution(StoreSummaries, StoreScripts, StoreDomains)

NextStore ==
    \/ Return
    \/ add_solution_store
    \/ legacy_add_solution_to_mongodb
    \/ migrate_existing_data_to_vectors

SpecStore == Init /\ [][NextStore]_vars

\* the store under every operation: saves (of one domain by the class
\* itself), migration runs, ratings and searches for one record
OpsDomains == {<<"A", "b", "c">>}

add_solution_ops == AddSolution(StoreSummaries, StoreScripts, OpsDomains)

OpsQueries == {<<"a", "b">>}

OpsLimits == {1}

search_store == SearchFor(OpsQueries, OpsLimits)

NextOps ==
    \/ Return
    \/ add_solution_ops
    \/ legacy_add_solution_to_mongodb
    \/ migrate_existing_data_to_vectors
    \/ add_rating
    \/ search_store

SpecOps == Init /\ [][NextOps]_vars

\* the round trip: solutions of any domain are saved and then searched for
\* by their domain; a domain may hold parentheses, as in "d(e)"
RoundTripDomains == {<<"A", "b", "c">>, <<"d", "(", "e", ")">>, <<"(", "a">>}

add_solution_round_trip ==
    AddSolution(StoreSummaries, StoreScripts, RoundTripDomains)

search_round_trip == SearchFor(RoundTripDomains, Limits)

NextRoundTrip ==
    \/ Return
    \/ add_solution_round_trip
    \/ search_round_trip

SpecRoundTrip == Init /\ [][NextRoundTrip]_vars


(***************************************************************************)
(* Migration runs under way at the same time, with saves in between. A run *)
(* reads its documents once (list(cursor)) and then, document by document, *)
(* generates an embedding and sends one update_one, which the store        *)
(* applies to the document as it is at that moment. Nothing else is shared *)
(* between two runs, and the class takes no lock.                          *)
(***************************************************************************)
RunIds == 1..MaxRuns

InitConcurrent ==
    /\ vector_search_enabled = TRUE
    /\ collection = <<>>
    /\ now = 0
    /\ last = Idle
    /\ vector_results = <<>>
    /\ text_results = <<>>
    /\ ratings = <<>>
    /\ migrations = [r \in RunIds |-> [pc |-> "start", documents |-> <<>>, done |-> 0]]

\* documents = list(cursor); a run that finds nothing to migrate returns
MigrateSelect(r) ==
    /\ migrations[r].pc = "start"
    /\ collection # <<>>
    /\ \E max_documents \in MaxDocuments :
          LET documents == SelectedIds(max_documents)
          IN  migrations' = [migrations EXCEPT ![r] =
                          [pc |-> IF documents = <<>> THEN "done" ELSE "running",
                           documents |-> documents, done |-> 0]]
    /\ UNCHANGED <<vector_search_enabled, collection, now, last, vector_results,
                   text_results, ratings>>

\* the body of the inner loop for the next document of the run
MigrateAttempt(r) ==
    /\ migrations[r].pc = "running"
    /\ LET id == migrations[r].documents[migrations[r].done + 1]
       IN  \E outcome \in DocOutcomes :
              collection' = [collection EXCEPT ![id] = AfterAttempt(@, outcome, 1)]
    /\ migrations' = [migrations EXCEPT ![r] =
                   [pc |-> IF migrations[r].done + 1 = Len(migrations[r].documents)
                           THEN "done" ELSE "running",
                    documents |-> migrations[r].documents, done |-> migrations[r].done + 1]]
    /\ UNCHANGED <<vector_search_enabled, now, last, vector_results, text_results,
                   ratings>>

MigrateStep == \E r \in RunIds : MigrateSelect(r) \/ MigrateAttempt(r)

NextConcurrent ==
    \/ Return
    \/ add_solution_store
    \/ legacy_add_solution_to_mongodb
    \/ MigrateStep

SpecConcurrent == InitConcurrent /\ [][NextConcurrent]_vars

(***************************************************************************)
(* hybrid_search_mongodb called on its own, as the administration page     *)
(* does, on the store the saves build.                                     *)
(***************************************************************************)
HybridQueries == {<<"a", "b", "c">>}

hybrid_search ==
    /\ last = Idle
    /\ \E query \in HybridQueries, limit \in Limits :
          \E run \in HybridRuns(query, limit) :
             last' = [op |-> "hybrid_search_mongodb", before |-> collection,
                      query |-> query, limit |-> limit,
                      vector_limit |-> run.vector_limit, vector |-> run.vector,
                      text_limit |-> run.text_limit, text |-> run.text,
                      kind |-> run.outcome.kind, val |-> run.outcome.val,
                      calls |-> run.outcome.calls]
    /\ UNCHANGED <<vector_search_enabled, collection, now, vector_results, text_results, ratings, migrations>>

NextHybrid ==
    \/ Return
    \/ add_solution_store
    \/ legacy_add_solution_to_mongodb
    \/ hybrid_search

SpecHybrid == Init /\ [][NextHybrid]_vars

(***************************************************************************)
(* GeminiEmbeddingService.generate_embedding and generate_query_embedding  *)
(* (utils/embedding_service.py) as functions of the text, of max_retries   *)
(* and of what the provider answers to each attempt. A run is the trace of *)
(* its calls of genai.embed_content and of time.sleep, and what it         *)
(* returns (the length of the vector, 0 for []).                           *)
(***************************************************************************)
EmbedTexts == {<<>>, <<" ">>, <<"a", "b">>}

\* the provider gives a vector, a result without one, or raises
ProviderResponses == {"embedding", "no_embedding", "error"}

EmbedContent == [kind |-> "embed_content", delay |-> 0]

Sleep(delay) == [kind |-> "sleep", delay |-> delay]

\* time.sleep(1 * (attempt + 1))
BackoffDelay(attempt) == 1 * (attempt + 1)

\* for attempt in range(max_retries), from attempt on
RECURSIVE EmbedAttempts(_, _, _)
EmbedAttempts(responses, max_retries, attempt) ==
    IF attempt >= max_retries
    THEN \* return [] after the loop
         [trace |-> <<>>, ret |-> 0]
    ELSE LET rest == EmbedAttempts(responses, max_retries, attempt + 1)
         IN  CASE responses[attempt + 1] = "embedding" ->
                    [trace |-> <<EmbedContent>>, ret |-> EMBEDDING_DIM]
               [] responses[attempt + 1] = "no_embedding" ->
                    \* logged; the loop goes on
                    [trace |-> <<EmbedContent>> \o rest.trace, ret |-> rest.ret]
               [] responses[attempt + 1] = "error" ->
                    IF attempt < max_retries - 1
                    THEN [trace |-> <<EmbedContent, Sleep(BackoffDelay(attempt))>>
                                       \o rest.trace,
                          ret |-> rest.ret]
                    ELSE \* raise retry_error, caught by the outer except
                         [trace |-> <<EmbedContent>>, ret |-> 0]

\* if not text or not text.strip(): return []
generate_embedding(text, max_retries, responses) ==
    IF text = <<>> \/ Strip(text) = <<>>
    THEN [trace |-> <<>>, ret |-> 0]
    ELSE EmbedAttempts(responses, max_retries, 0)

\* the same body, with task_type retrieval_query
generate_query_embedding(query, max_retries, responses) ==
    IF query = <<>> \/ Strip(query) = <<>>
    THEN [trace |-> <<>>, ret |-> 0]
    ELSE EmbedAttempts(responses, max_retries, 0)

Embed ==
    /\ last = Idle
    /\ \E text \in EmbedTexts, max_retries \in 0..MaxRetries :
          \E responses \in [1..max_retries -> ProviderResponses] :
             \E call \in {[op |-> "generate_embedding",
                           run |-> generate_embedding(text, max_retries, responses)],
                          [op |-> "generate_query_embedding",
                           run |-> generate_query_embedding(text, max_retries, responses)]} :
                last' = [op |-> call.op, text |-> text, max_retries |-> max_retries,
                         responses |-> responses, trace |-> call.run.trace,
                         ret |-> call.run.ret]
    /\ UNCHANGED <<vector_search_enabled, collection, now, vector_results, text_results, ratings, migrations>>

NextEmbed ==
    \/ Return
    \/ Embed

SpecEmbed == Init /\ [][NextEmbed]_vars

(***************************************************************************)
(* _calculate_relevance_score as a function of its arguments and of the    *)
(* clock: one record, any of whose fields may be missing, and a query.     *)
(***************************************************************************)
ScoreNow == RECENT_DAYS + 1

\* 31, 30, 29 and 0 days old
ScoreTimestamps == {0, 1, 2, ScoreNow}

ScoreFields == {"domain", "summary", "extra_info", "prerequisites", "script", "timestamp"}

ScoreValues ==
    [domain : {<<"A", "b", "c">>, <<"a", "b", "a", "b", "a">>},
     summary : {<<"a", "b", "c", " ", "A", "B", "C", " ", "x", "y">>, <<"d", "e">>},
     extra_info : {<<"x", "y", "z">>},
     prerequisites : {<<"x", "a", "b", "c", "x">>},
     script : {<<"e", "e", "e", "e">>, <<>>},
     timestamp : ScoreTimestamps]

ScoreRecords == {[f \in F |-> v[f]] : F \in SUBSET ScoreFields, v \in ScoreValues}

ScoreQueries == {<<"a", "b", "c">>, <<"A", "B">>, <<"a", "b", "a">>, <<"e", "e">>,
                 <<"a", "b", "c", " ", "a", "b", "c">>, <<"x", "y", "z", " ", "a", "b">>,
                 <<"q", "q", "q">>, <<"q", "q", " ", "q">>}

InitScore ==
    /\ vector_search_enabled = FALSE
    /\ collection \in {<<r>> : r \in ScoreRecords}
    /\ now = ScoreNow
    /\ last = Idle
    /\ vector_results = <<>>
    /\ text_results = <<>>
    /\ ratings = <<>>
    /\ migrations = <<>>

Score ==
    /\ last = Idle
    /\ \E query \in ScoreQueries :
          last' = [op |-> "_calculate_relevance_score", query |-> query,
                   ret |-> calculate_relevance_score(collection[1], query)]
    /\ UNCHANGED <<vector_search_enabled, collection, now, vector_results, text_results, ratings, migrations>>

NextScore == Score

SpecScore == InitScore /\ [][NextScore]_vars


(***************************************************************************)
(* _merge_search_results as a function of its arguments: every pair of     *)
(* result lists of bounded length, a list possibly repeating an id.        *)
(***************************************************************************)
MergeIds == 1..3

\* 0.5, 0.9 and 1.2
MergeVectorScores == {50, 90, 120}

\* 8.0, 12.0 and 12.5
MergeTextScores == {800, 1200, 1250}

SeqsUpTo(S, n) == UNION {[1..k -> S] : k \in 0..n}

VectorLists ==
    SeqsUpTo({[id |-> i, vector_score |-> v, search_type |-> "vector"] :
                i \in MergeIds, v \in MergeVectorScores}, MaxMergeLen)

TextLists ==
    SeqsUpTo({[id |-> i, score |-> t, search_type |-> "atlas"] :
                i \in MergeIds, t \in MergeTextScores}, MaxMergeLen)

InitMerge ==
    /\ vector_search_enabled = TRUE
    /\ collection = <<>>
    /\ now = 0
    /\ last = Idle
    /\ vector_results \in VectorLists
    /\ text_results \in TextLists
    /\ ratings = <<>>
    /\ migrations = <<>>

Merge ==
    /\ last = Idle
    /\ last' = [op |-> "_merge_search_results",
                ret |-> merge_search_results(vector_results, text_results)]
    /\ UNCHANGED <<vector_search_enabled, collection, now, vector_results, text_results, ratings, migrations>>

NextMerge == Merge

SpecMerge == InitMerge /\ [][NextMerge]_vars


(***************************************************************************)
(* Properties of _merge_search_results (specification SpecMerge).          *)
(***************************************************************************)
Merged == last.op = "_merge_search_results"

IdsOf(results) == {results[i].id : i \in 1..Len(results)}

\* no id occurs twice in the list, as in every list a store operator returns
NoRepeat(results) ==
    \A i, j \in 1..Len(results) : results[i].id = results[j].id => i = j

FirstIndex(results, id) ==
    CHOOSE i \in 1..Len(results) :
        /\ results[i].id = id
        /\ \A j \in 1..Len(results) : results[j].id = id => i <= j

\* C5: for every pair of vector and text result lists, lists repeating an id
\* included, no id appears twice in the merged list and every id of either
\* input appears in it (hence exactly once).
C5_MergeDeduplicates ==
    Merged =>
        /\ NoRepeat(last.ret)
        /\ IdsOf(last.ret) = IdsOf(vector_results) \cup IdsOf(text_results)

\* C5 witness: a merge of lists where the vector list repeats an id, the
\* text list repeats an id, and an id is in both lists.
C5_Witness ==
    /\ Merged
    /\ ~NoRepeat(vector_results)
    /\ ~NoRepeat(text_results)
    /\ IdsOf(vector_results) \cap IdsOf(text_results) # {}
    /\ Len(last.ret) = 1

\* C6: for lists that do not repeat an id, the combined score of a merged
\* record is min(vector_score * 10, 10) if its id is only in the vector
\* list, text_score * 0.8 if it is only in the text list, and
\* min(vector_score * 10, 10) + text_score * 0.3 if it is in both.
C6_CombinedScore ==
    (Merged /\ NoRepeat(vector_results) /\ NoRepeat(text_results)) =>
        \A k \in 1..Len(last.ret) :
            LET r == last.ret[k]
                inVector == r.id \in IdsOf(vector_results)
                inText == r.id \in IdsOf(text_results)
                v == vector_results[FirstIndex(vector_results, r.id)].vector_score
                t == text_results[FirstIndex(text_results, r.id)].score
                base == IF v * 10 > 1000 THEN 1000 ELSE v * 10
            IN  /\ (inVector /\ ~inText) => r.combined_score * 10 = base * 10
                /\ (~inVector /\ inText) => r.combined_score * 10 = t * 8
                /\ (inVector /\ inText) => r.combined_score * 10 = base * 10 + t * 3

\* C6 witness: a merge whose result holds a vector-only record whose score
\* is capped at 10, a text-only record and a record found by both.
C6_Witness ==
    /\ Merged /\ NoRepeat(vector_results) /\ NoRepeat(text_results)
    /\ \E i \in 1..Len(vector_results) :
          /\ vector_results[i].vector_score > 100
          /\ vector_results[i].id \notin IdsOf(text_results)
    /\ IdsOf(vector_results) \cap IdsOf(text_results) # {}
    /\ IdsOf(text_results) \ IdsOf(vector_results) # {}

\* the place of a record before the sort: the vector records in the order of
\* the vector list, then the text-only records in the order of the text list
OriginRank(id) ==
    IF id \in IdsOf(vector_results) THEN FirstIndex(vector_results, id)
    ELSE Len(vector_results) + FirstIndex(text_results, id)

\* C7: the merged list is ordered by combined score descending, and two
\* records of equal combined score keep their original strategy order
\* (vector-origin before text-origin, input order within an origin).
C7_SortedStable ==
    Merged =>
        \A i, j \in 1..Len(last.ret) :
            i < j =>
                /\ last.ret[i].combined_score >= last.ret[j].combined_score
                /\ last.ret[i].combined_score = last.ret[j].combined_score
                     => OriginRank(last.ret[i].id) < OriginRank(last.ret[j].id)

\* C7 witness: a merged list where a text-only record ties with the vector
\* record before it, and two text-only records tie.
C7_Witness ==
    /\ Merged
    /\ Len(last.ret) = 3
    /\ last.ret[1].combined_score = last.ret[2].combined_score
    /\ last.ret[2].combined_score = last.ret[3].combined_score
    /\ last.ret[1].id \in IdsOf(vector_results)
    /\ last.ret[2].id \notin IdsOf(vector_results)
    /\ last.ret[3].id \notin IdsOf(vector_results)

\* C8: for lists that do not repeat an id, a merged record's search_type is
\* 'hybrid' exactly when its id is in both lists, 'vector' exactly when it is
\* only in the vector list and 'text' exactly when it is only in the text
\* list.
C8_SearchType ==
    (Merged /\ NoRepeat(vector_results) /\ NoRepeat(text_results)) =>
        \A k \in 1..Len(last.ret) :
            LET r == last.ret[k]
                inVector == r.id \in IdsOf(vector_results)
                inText == r.id \in IdsOf(text_results)
            IN  /\ r.search_type = "hybrid" <=> (inVector /\ inText)
                /\ r.search_type = "vector" <=> (inVector /\ ~inText)
                /\ r.search_type = "text" <=> (~inVector /\ inText)

\* C8 witness: a merged list holding a record of each search type.
C8_Witness ==
    /\ Merged /\ NoRepeat(vector_results) /\ NoRepeat(text_results)
    /\ {last.ret[k].search_type : k \in 1..Len(last.ret)} = {"hybrid", "vector", "text"}

\* scenario C: vector search returned [id1: 0.9, id2: 0.5], lexical search
\* returned [id2: 12.0, id3: 8.0]
ScenarioC ==
    /\ Merged
    /\ vector_results = <<[id |-> 1, vector_score |-> 90, search_type |-> "vector"],
                          [id |-> 2, vector_score |-> 50, search_type |-> "vector"]>>
    /\ text_results = <<[id |-> 2, score |-> 1200, search_type |-> "atlas"],
                        [id |-> 3, score |-> 800, search_type |-> "atlas"]>>

MergedIds == [k \in 1..Len(last.ret) |-> last.ret[k].id]

\* C9 as claimed: in scenario C the merge gives the order id2, id1, id3 with
\* id2.search_type = 'hybrid'.
C9_ScenarioC_Claimed ==
    ScenarioC => /\ MergedIds = <<2, 1, 3>>
                 /\ last.ret[1].search_type = "hybrid"

\* C9 as amended: in scenario C the merge gives the order id1 (9.0),
\* id2 (5.0 + 3.6 = 8.6), id3 (6.4), with id2.search_type = 'hybrid'.
C9_ScenarioC ==
    ScenarioC => /\ MergedIds = <<1, 2, 3>>
                 /\ last.ret[2].search_type = "hybrid"
                 /\ last.ret[2].id = 2

\* C9 witness: scenario C has been merged.
C9_Witness ==
    ScenarioC /\ last.ret[2].combined_score = 860


(***************************************************************************)
(* Properties of search_mongodb (specification Spec).                      *)
(***************************************************************************)
Searched == last.op = "search_mongodb"

\* the number of characters of the query once trimmed; 0 for a missing query
TrimmedLen(query) ==
    IF query = None THEN 0
    ELSE Cardinality({i \in 1..Len(query) :
            /\ \E j \in 1..i : query[j] # " "
            /\ \E j \in i..Len(query) : query[j] # " "})

\* C1: for a query whose trimmed length is below 2 (empty or missing
\* included) search_mongodb returns an empty list and makes no call to the
\* store nor to the embedding provider.
C1_ShortQueryShortCircuit ==
    (Searched /\ TrimmedLen(last.query) < 2) =>
        /\ last.kind = "return"
        /\ last.val = <<>>
        /\ last.calls = <<>>
        /\ last.stages = <<>>

\* C1 witness: a search for " a " (three characters, one once trimmed) on a
\* store that holds a document the query would match.
C1_Witness ==
    /\ Searched
    /\ last.query = <<" ", "a", " ">>
    /\ \E i \in Ids : RegexMatches(collection[i], <<"a">>)
    /\ last.val = <<>>

\* the order of the strategies
StageOrder == IF vector_search_enabled
              THEN <<"vector", "hybrid", "atlas", "regex">>
              ELSE <<"atlas", "regex">>

\* C2: the strategies are attempted in the order vector, hybrid, native
\* lexical, regex; a strategy is attempted only after every earlier one gave
\* nothing, and the result of the first strategy that gives a non-empty list
\* is what search_mongodb returns.
C2_FirstNonEmptyStage ==
    Searched =>
        LET n == Len(last.stages)
        IN  /\ n <= Len(StageOrder)
            /\ \A i \in 1..n : last.stages[i].name = StageOrder[i]
            /\ \A i \in 1..n : last.stages[i].outcome = "nonempty" =>
                    /\ i = n
                    /\ last.kind = "return"
                    /\ last.val = last.stages[i].result

\* C2 witness: vector search and the hybrid merge gave nothing, native
\* lexical search gave two records, which are returned; regex never ran.
C2_Witness ==
    /\ Searched
    /\ Len(last.stages) = 3
    /\ last.stages[3].name = "atlas"
    /\ last.stages[3].outcome = "nonempty"
    /\ Len(last.val) = 2
    /\ \E i \in Ids : RegexMatches(collection[i], Strip(last.query))

\* C3 as claimed: a stage that raises an operational error other than a
\* missing index is followed by the next stage of the chain; an operational
\* failure of the native lexical operator is followed by the regex scan,
\* whose matches are returned.
C3_ErrorFallsThrough ==
    Searched =>
        \A i \in 1..Len(last.stages) :
            (last.stages[i].name # "regex" /\ last.stages[i].outcome = "raised") =>
                /\ i < Len(last.stages)
                /\ last.stages[i + 1].name = StageOrder[i + 1]
                /\ last.stages[i].name = "atlas" =>
                      last.val = last.stages[i + 1].result

\* C4: search_mongodb raises nothing to its caller and returns a list, which
\* is empty when every strategy failed or gave nothing.
C4_NeverRaises ==
    Searched =>
        /\ last.kind = "return"
        /\ DOMAIN last.val = 1..Len(last.val)
        /\ (\A i \in 1..Len(last.stages) : last.stages[i].outcome # "nonempty")
              => last.val = <<>>

\* C4 witness: every strategy before it gave nothing and the regex scan
\* raised, on a store holding a document that matches; the search returned
\* the empty list.
C4_Witness ==
    /\ Searched
    /\ Len(last.stages) = 4
    /\ last.stages[4].name = "regex"
    /\ last.stages[4].outcome = "raised"
    /\ last.kind = "return"
    /\ last.val = <<>>
    /\ \E i \in Ids : RegexMatches(collection[i], Strip(last.query))

\* C10 as claimed: every record search_mongodb returns is a document whose
\* status is active.
C10_OnlyActiveReturned ==
    Searched =>
        \A k \in 1..Len(last.val) :
            /\ "status" \in DOMAIN collection[last.val[k].id]
            /\ collection[last.val[k].id].status = "active"

(***************************************************************************)
(* Round trip of a saved solution (specification SpecRoundTrip).           *)
(***************************************************************************)
\* the search came down to the regex scan, which did not fail
RegexFallback ==
    /\ Searched
    /\ last.stages # <<>>
    /\ last.stages[Len(last.stages)].name = "regex"
    /\ last.stages[Len(last.stages)].outcome # "raised"

\* a document saved by add_solution_to_mongodb
SavedByAdd(doc) == "status" \in DOMAIN doc

\* C11 as claimed: a regex-fallback search whose query is exactly the domain
\* of a saved solution (at least 2 characters), with a limit that no other
\* match can exhaust, returns that solution with a score greater than 0.
C11_RoundTrip ==
    (RegexFallback /\ last.limit >= Len(collection)) =>
        \A i \in Ids :
            (/\ SavedByAdd(collection[i])
             /\ Len(collection[i].domain) >= 2
             /\ last.query = collection[i].domain)
            => \E k \in 1..Len(last.val) :
                  /\ last.val[k].id = i
                  /\ last.val[k].score > 0

(***************************************************************************)
(* Properties of _calculate_relevance_score (specification SpecScore).     *)
(***************************************************************************)
Scored == last.op = "_calculate_relevance_score"

\* the text of a field, lower-cased; the empty string for a missing field
FieldText(record, field) ==
    IF field \in DOMAIN record THEN Lower(record[field]) ELSE <<>>

\* the number of occurrences of sub in text, counted without overlap: the
\* most places of sub in text of which no two overlap
OccurrenceCount(text, sub) ==
    LET places == {i \in 1..Len(text) :
                     /\ i + Len(sub) - 1 <= Len(text)
                     /\ \A k \in 1..Len(sub) : text[i + k - 1] = sub[k]}
        apart == {P \in SUBSET places :
                     \A i, j \in P : i < j => i + Len(sub) <= j}
    IN  CHOOSE n \in 0..Len(text) :
            /\ \E P \in apart : Cardinality(P) = n
            /\ \A P \in apart : Cardinality(P) <= n

\* the words of a query: its maximal runs of characters other than blanks,
\* as pairs of first and last position
QueryWords(query) ==
    {w \in (1..Len(query)) \X (1..Len(query)) :
        /\ w[1] <= w[2]
        /\ \A i \in w[1]..w[2] : query[i] # " "
        /\ (w[1] = 1 \/ query[w[1] - 1] = " ")
        /\ (w[2] = Len(query) \/ query[w[2] + 1] = " ")}

\* the five weights in hundredths: 5.0, 3.0, 2.0, 1.5, 1.0
ClaimedWeight(field) ==
    CASE field = "domain" -> 500
      [] field = "summary" -> 300
      [] field = "extra_info" -> 200
      [] field = "prerequisites" -> 150
      [] field = "script" -> 100

\* the sum of the values of a function of finite domain
RECURSIVE SumOver(_)
SumOver(F) ==
    IF DOMAIN F = {} THEN 0
    ELSE LET x == CHOOSE y \in DOMAIN F : TRUE
         IN  F[x] + SumOver([y \in DOMAIN F \ {x} |-> F[y]])

\* twice the claimed score of a field, in hundredths
ClaimedFieldTwice(record, field, query) ==
    LET text == FieldText(record, field)
        phrase == Lower(query)
        wordPart(w) ==
            IF w[2] - w[1] + 1 > 2
            THEN OccurrenceCount(text, SubSeq(phrase, w[1], w[2])) * ClaimedWeight(field)
            ELSE 0
    IN  OccurrenceCount(text, phrase) * ClaimedWeight(field) * 4
        + SumOver([w \in QueryWords(query) |-> wordPart(w)])

\* C12: the score of a record for a query is the sum over the fields domain
\* (5.0), summary (3.0), extra_info (2.0), prerequisites (1.5) and script
\* (1.0), compared without regard to case, of (occurrences of the whole
\* query in the field) x weight x 2.0 plus, for each query word longer than
\* 2 characters, (occurrences of the word in the field) x weight x 0.5; plus
\* 1.0 if the record has a timestamp less than 30 days old. Occurrences are
\* counted without overlap, a missing field counts as the empty string, and
\* the score is always a number.
C12_FieldWeightedScore ==
    Scored =>
        LET record == collection[1]
            fieldPart(f) == ClaimedFieldTwice(record, f, last.query)
            recent == "timestamp" \in DOMAIN record /\ now - record.timestamp < 30
        IN  /\ last.ret \in Nat
            /\ 2 * last.ret =
                  SumOver([f \in {"domain", "summary", "extra_info", "prerequisites",
                                   "script"} |-> fieldPart(f)])
                  + (IF recent THEN 200 ELSE 0)

\* C12 witness: a record without extra_info and without script, 29 days old,
\* scored for "abc abc": the phrase is in the summary once, the word abc is
\* counted twice, in the domain, the summary and the prerequisites.
C12_Witness ==
    /\ Scored
    /\ last.query = <<"a", "b", "c", " ", "a", "b", "c">>
    /\ DOMAIN collection[1] = {"domain", "summary", "prerequisites", "timestamp"}
    /\ collection[1].domain = <<"A", "b", "c">>
    /\ collection[1].summary = <<"a", "b", "c", " ", "A", "B", "C", " ", "x", "y">>
    /\ collection[1].timestamp = 2
    /\ last.ret = 600 + 2 * (250 + 300 + 75) + 100

\* sub is found in text
Found(text, sub) ==
    \E i \in 1..Len(text) :
        /\ i + Len(sub) - 1 <= Len(text)
        /\ \A k \in 1..Len(sub) : text[i + k - 1] = sub[k]

\* none of the weighted fields of the record holds the query phrase or a
\* word of the query
NoOverlap(record, query) ==
    \A f \in {"domain", "summary", "extra_info", "prerequisites", "script"} :
        /\ ~Found(FieldText(record, f), Lower(query))
        /\ \A w \in QueryWords(query) :
              ~Found(FieldText(record, f), SubSeq(Lower(query), w[1], w[2]))

\* C13 as claimed: a record none of whose weighted fields holds the query
\* phrase or a query word scores exactly 0.
C13_ZeroOverlap_Claimed ==
    (Scored /\ NoOverlap(collection[1], last.query)) => last.ret = 0

\* C13 as amended: such a record scores exactly 0 when it has no timestamp
\* or is 30 days old or older, and exactly 1.0, the recency bonus, when it is
\* less than 30 days old.
C13_ZeroOverlap ==
    (Scored /\ NoOverlap(collection[1], last.query)) =>
        last.ret = IF /\ "timestamp" \in DOMAIN collection[1]
                      /\ now - collection[1].timestamp < 30
                   THEN 100 ELSE 0

\* C13 witness: a record with all five fields, 29 days old, scored for
\* "qq q", which none of its fields holds: the score is 1.0.
C13_Witness ==
    /\ Scored
    /\ last.query = <<"q", "q", " ", "q">>
    /\ DOMAIN collection[1] = ScoreFields
    /\ collection[1].timestamp = 2
    /\ NoOverlap(collection[1], last.query)
    /\ last.ret = 100

(***************************************************************************)
(* Properties of the store (specification SpecStore).                      *)
(***************************************************************************)
Migrated == last.op = "migrate_existing_data_to_vectors"

\* search_metadata.has_embedding is true
HasEmbedding(doc) ==
    /\ "search_metadata" \in DOMAIN doc
    /\ "has_embedding" \in DOMAIN doc.search_metadata
    /\ doc.search_metadata.has_embedding = TRUE

\* the document went through a successful migration
EmbeddedByMigration(doc) ==
    HasEmbedding(doc) /\ "embedding_error" \notin DOMAIN doc.search_metadata

\* the record events of a migration trace
RecordEvents(trace) == SelectSeq(trace, LAMBDA e : e.kind = "record")

\* C14: in every reachable state of the store, whatever the saves and the
\* migration runs and whether embedding generation succeeded or failed, a
\* solution whose search_metadata.has_embedding is true has a non-empty
\* embedding.
C14_EmbeddingPresent ==
    \A i \in Ids :
        HasEmbedding(collection[i]) =>
            /\ "embedding" \in DOMAIN collection[i]
            /\ collection[i].embedding > 0

\* C14 witness: after a migration run the store holds a document of the
\* first class that the run embedded and a document the run marked as
\* failed.
C14_Witness ==
    /\ Migrated
    /\ last.kind = "done"
    /\ \E i, j \in Ids :
          /\ "status" \notin DOMAIN collection[i]
          /\ EmbeddedByMigration(collection[i])
          /\ collection[i].embedding = EMBEDDING_DIM
          /\ "search_metadata" \in DOMAIN collection[j]
          /\ collection[j].search_metadata.has_embedding = FALSE
          /\ \E k \in 1..Len(last.trace) :
                /\ last.trace[k].kind = "record"
                /\ last.trace[k].id = j
                /\ last.trace[k].outcome = "marked"

\* C15: a save whose trimmed summary or trimmed script is shorter than 50
\* characters, or whose trimmed domain is empty, returns false, makes no
\* call to the store nor to the embedding provider, and leaves the store
\* unchanged.
C15_RejectedSave ==
    (/\ last.op = "add_solution_to_mongodb"
     /\ \/ TrimmedLen(last.summary) < 50
        \/ TrimmedLen(last.script) < 50
        \/ TrimmedLen(last.domain) = 0)
    => /\ last.ret = FALSE
       /\ last.calls = <<>>
       /\ collection = last.before

\* C15 witness: a save with a summary of 51 characters, 49 once trimmed, and
\* a valid script and domain was rejected on a store that holds a solution.
C15_Witness ==
    /\ last.op = "add_solution_to_mongodb"
    /\ last.summary = PaddedSummary
    /\ last.script = LongScript
    /\ last.domain = <<"d", "e">>
    /\ last.ret = FALSE
    /\ last.calls = <<>>
    /\ collection # <<>>

\* C16: a record whose search_metadata.has_embedding is true is not selected
\* by a migration run and is left as it was by the run, in every run.
C16_MigrationIdempotent ==
    Migrated =>
        \A i \in 1..Len(last.before) :
            HasEmbedding(last.before[i]) =>
                /\ i \notin Range(last.selected)
                /\ collection[i] = last.before[i]

\* C16 witness: a migration run that processed a record left aside a record
\* that an earlier run had embedded.
C16_Witness ==
    /\ Migrated
    /\ last.kind = "done"
    /\ \E i \in Ids :
          /\ i \notin Range(last.selected)
          /\ EmbeddedByMigration(collection[i])

\* C17: in a migration run, every selected record (the first max_documents
\* records whose has_embedding is not true) is attempted, once and in order,
\* whatever happened to the records before it.
C17_FailureDoesNotAbort ==
    (Migrated /\ last.kind = "done") =>
        LET pending == {i \in 1..Len(last.before) : ~HasEmbedding(last.before[i])}
            n == IF Cardinality(pending) < last.max_documents
                 THEN Cardinality(pending) ELSE last.max_documents
            events == RecordEvents(last.trace)
        IN  /\ Len(events) = n
            /\ \A k \in 1..n :
                  /\ events[k].id \in pending
                  /\ Cardinality({j \in pending : j <= events[k].id}) = k

\* C17 witness: a run with batches of one record whose first record raised
\* an exception; after the pause the record of the second batch was embedded.
C17_Witness ==
    /\ Migrated
    /\ last.kind = "done"
    /\ last.batch_size = 1
    /\ Len(last.trace) = 3
    /\ last.trace[1].kind = "record" /\ last.trace[1].outcome = "raised"
    /\ last.trace[2].kind = "sleep"
    /\ last.trace[3].kind = "record" /\ last.trace[3].outcome = "embedded"
    /\ EmbeddedByMigration(collection[last.trace[3].id])

Annotations == {"search_type", "score", "vector_score", "combined_score",
                "search_sources"}

\* C19: a search leaves every stored record as it was, and no stored record
\* ever carries search_type, score, vector_score, combined_score or
\* search_sources.
C19_SearchReadOnly ==
    /\ \A i \in Ids : DOMAIN collection[i] \cap Annotations = {}
    /\ Searched => collection = last.before

\* C19 witness: a search with limit 2 on a store of two documents returned a
\* record found by both the vector and the lexical operator and annotated
\* with a combined score, its sources and the search type hybrid.
C19_Witness ==
    /\ Searched
    /\ last.limit = 2
    /\ Len(collection) = 2
    /\ Len(last.val) >= 1
    /\ {"search_type", "vector_score", "combined_score", "search_sources"}
          \subseteq DOMAIN last.val[1]
    /\ last.val[1].search_type = "hybrid"

\* C20: a record created by add_solution_to_mongodb has status active, and no
\* call of any operation (save, search, rate, migrate) removes a record or
\* changes, adds or removes the status of a record.
C20_StatusStable ==
    "before" \in DOMAIN last =>
        /\ Len(collection) >= Len(last.before)
        /\ \A i \in 1..Len(last.before) :
              /\ ("status" \in DOMAIN collection[i]) = ("status" \in DOMAIN last.before[i])
              /\ "status" \in DOMAIN last.before[i] =>
                    collection[i].status = last.before[i].status
        /\ (last.op = "add_solution_to_mongodb" /\ last.ret = TRUE) =>
              /\ Len(collection) = Len(last.before) + 1
              /\ collection[Len(collection)].status = "active"

\* C20 witness: a rating is stored and a migration run has embedded a saved
\* solution, whose status is still active, next to a document of the first
\* class, which still has no status.
C20_Witness ==
    /\ Migrated
    /\ last.kind = "done"
    /\ ratings # <<>>
    /\ \E i, j \in Ids :
          /\ EmbeddedByMigration(collection[i])
          /\ "status" \in DOMAIN collection[i]
          /\ collection[i].status = "active"
          /\ "status" \notin DOMAIN collection[j]

(***************************************************************************)
(* Properties of the stages of search_mongodb (specification SpecSearch).  *)
(***************************************************************************)
\* the stage logged that the lexical index is not available
IndexMissing(stage) == "logger.warning" \in Range(stage.calls)

\* the vector operator of the stage failed (a vector index that is not
\* configured included): the pipeline ran and gave nothing although the store
\* holds a document the filter lets through
VectorFailed(stage) ==
    /\ stage.calls = <<"embed", "aggregate.vectorSearch">>
    /\ stage.result = <<>>
    /\ \E i \in Ids : VectorFilter(collection[i])

\* C21: a stage whose operator reports a missing index (the lexical
\* operator) or fails for it (the vector operator) does not end the search:
\* it counts as having given nothing and the next strategy runs; after a
\* missing lexical index the regex scan runs and what it returns is returned.
C21_IndexMissingFallsThrough ==
    Searched =>
        \A i \in 1..Len(last.stages) :
            LET stage == last.stages[i]
            IN  /\ (stage.name = "vector" /\ VectorFailed(stage)) =>
                      /\ stage.outcome = "empty"
                      /\ i < Len(last.stages)
                      /\ last.stages[i + 1].name = "hybrid"
                /\ (stage.name = "hybrid" /\ IndexMissing(stage)) =>
                      /\ stage.outcome # "raised"
                      /\ stage.outcome = "empty" =>
                            /\ i < Len(last.stages)
                            /\ last.stages[i + 1].name = "atlas"
                /\ (stage.name = "atlas" /\ IndexMissing(stage)) =>
                      /\ stage.outcome = "empty"
                      /\ i < Len(last.stages)
                      /\ last.stages[i + 1].name = "regex"
                      /\ last.stages[i + 1].outcome # "raised" =>
                            /\ last.kind = "return"
                            /\ last.val = last.stages[i + 1].result

\* C21 witness: the vector operator failed on a store holding an embedded
\* document, the hybrid stage gave nothing, the lexical index was missing,
\* and the match of the regex scan was returned.
C21_Witness ==
    /\ Searched
    /\ Len(last.stages) = 4
    /\ VectorFailed(last.stages[1])
    /\ last.stages[3].name = "atlas"
    /\ IndexMissing(last.stages[3])
    /\ last.stages[4].outcome = "nonempty"
    /\ last.val = last.stages[4].result
    /\ last.val # <<>>

\* the records of the results of the stages called name
StageResults(name) ==
    UNION {Range(last.stages[i].result) :
             i \in {j \in 1..Len(last.stages) : last.stages[j].name = name}}

\* a similarity in [0, 1]
UnitScore(score) == score \in 0..100

\* C22 as claimed: every result returned by the vector stage carries a
\* combined_score, which lies in [0, 10] whenever its vector_score lies in
\* [0, 1].
C22_VectorStageCombined_Claimed ==
    Searched =>
        \A r \in StageResults("vector") :
            /\ "combined_score" \in DOMAIN r
            /\ UnitScore(r.vector_score) => r.combined_score \in 0..SCORE_CAP

\* C22 as amended: a result returned by the vector stage carries a
\* vector_score and no combined_score, and so does a result of the hybrid
\* stage that went through no merge (its vector fallback); a result that the
\* hybrid merge took from the vector list alone carries a combined_score,
\* which is ten times its vector_score and lies in [0, 10] whenever its
\* vector_score lies in [0, 1].
C22_VectorCombined ==
    Searched =>
        /\ \A r \in StageResults("vector") :
              /\ "vector_score" \in DOMAIN r
              /\ "combined_score" \notin DOMAIN r
        /\ \A r \in StageResults("hybrid") :
              r.search_type = "vector" =>
                 /\ "vector_score" \in DOMAIN r
                 /\ IF "search_sources" \in DOMAIN r
                    THEN /\ "combined_score" \in DOMAIN r
                         /\ UnitScore(r.vector_score) =>
                               /\ r.combined_score = 10 * r.vector_score
                               /\ r.combined_score \in 0..SCORE_CAP
                    ELSE "combined_score" \notin DOMAIN r

\* C22 witness: the vector stage gave nothing and the hybrid stage returned a
\* record found by its vector search alone, with similarity 0.9 and combined
\* score 9.0.
C22_Witness ==
    /\ Searched
    /\ Len(last.stages) = 2
    /\ last.stages[2].name = "hybrid"
    /\ last.val = last.stages[2].result
    /\ \E k \in 1..Len(last.val) :
          /\ last.val[k].search_type = "vector"
          /\ last.val[k].vector_score = 90
          /\ last.val[k].combined_score = 900

\* the query as search_mongodb hands it to the stages
SanitizedQuery == Take(Strip(last.query), MAX_QUERY_LEN)

\* C23 as claimed: the regex stage returns the limit highest-scoring records
\* among all the records that match: no matching record left out of the
\* result has a strictly higher lexical score than a returned one.
C23_RegexTopScores ==
    RegexFallback =>
        \A i \in Ids :
            (/\ RegexMatches(collection[i], SanitizedQuery)
             /\ \A k \in 1..Len(last.val) : last.val[k].id # i)
            => \A k \in 1..Len(last.val) :
                  calculate_relevance_score(collection[i], SanitizedQuery)
                     <= last.val[k].score

\* the result of the search is the result of its native lexical stage
LexicalFallback ==
    /\ Searched
    /\ last.stages # <<>>
    /\ last.stages[Len(last.stages)].name = "atlas"
    /\ last.stages[Len(last.stages)].outcome = "nonempty"

\* C25 as claimed: every result that search_mongodb returns from the native
\* lexical stage is annotated search_type = text and carries the native
\* relevance score as score.
C25_LexicalAnnotation ==
    LexicalFallback =>
        \A k \in 1..Len(last.val) :
            /\ last.val[k].search_type = "text"
            /\ "score" \in DOMAIN last.val[k]

\* C29: for every query and every limit >= 1, search_mongodb returns at most
\* limit records, whichever stage gave the result, and so does every stage.
C29_AtMostLimit ==
    Searched =>
        /\ Len(last.val) <= last.limit
        /\ \A i \in 1..Len(last.stages) : Len(last.stages[i].result) <= last.limit

\* C29 witness: a search with limit 1 on a store of two documents that both
\* match came down to the regex scan, which returned one record.
C29_Witness ==
    /\ RegexFallback
    /\ last.limit = 1
    /\ Len(collection) = 2
    /\ \A i \in Ids : RegexMatches(collection[i], SanitizedQuery)
    /\ Len(last.val) = 1

(***************************************************************************)
(* Properties of hybrid_search_mongodb (specification SpecHybrid).         *)
(***************************************************************************)
Hybrided == last.op = "hybrid_search_mongodb"

\* the lexical search was called
TextCalled == last.text.calls # <<>>

\* C24 as claimed: for every limit >= 1 the hybrid stage asks vector search
\* for floor(limit/2) candidates and lexical search for limit - vector_count,
\* and returns at most limit records.
C24_HybridLimits_Claimed ==
    Hybrided =>
        /\ last.vector_limit = last.limit \div 2
        /\ last.text_limit = last.limit - Len(last.vector.val)
        /\ Len(last.val) <= last.limit

\* C24 as amended: for every limit >= 1 the hybrid stage asks vector search
\* for floor(limit/2) candidates, and for one when the limit is 1; it asks
\* lexical search for limit - vector_count candidates, and does not call it
\* when that is 0; unless the lexical search raised it returns the first
\* limit records of the merge of the two lists, and it returns at most limit
\* records in every case.
C24_HybridLimits ==
    Hybrided =>
        /\ last.vector_limit = (IF last.limit = 1 THEN 1 ELSE last.limit \div 2)
        /\ Len(last.vector.val) <= last.vector_limit
        /\ last.text_limit = last.limit - Len(last.vector.val)
        /\ TextCalled <=> last.text_limit > 0
        /\ Len(last.text.val) <= last.text_limit
        /\ last.text.kind # "raise" =>
              /\ Len(last.val) = Min(last.limit,
                                     Cardinality(IdsOf(last.vector.val)
                                                 \cup IdsOf(last.text.val)))
              /\ IdsOf(last.val) \subseteq IdsOf(last.vector.val) \cup IdsOf(last.text.val)
        /\ Len(last.val) <= last.limit

\* C24 witness: with limit 2 the vector search was asked for one record and
\* gave one, the lexical search was asked for the other and gave a different
\* record, and both were returned.
C24_Witness ==
    /\ Hybrided
    /\ last.limit = 2
    /\ last.vector_limit = 1
    /\ Len(last.vector.val) = 1
    /\ last.text_limit = 1
    /\ Len(last.text.val) = 1
    /\ Len(last.val) = 2

(***************************************************************************)
(* Properties of the embedding calls (specification SpecEmbed).            *)
(***************************************************************************)
Embedded == last.op \in {"generate_embedding", "generate_query_embedding"}

\* the positions of the trace at which the provider was contacted
ContactsAt == {i \in 1..Len(last.trace) : last.trace[i].kind = "embed_content"}

\* the delays of the trace, in order
Delays == SelectSeq(last.trace, LAMBDA e : e.kind = "sleep")

RECURSIVE PowerOfTwo(_)
PowerOfTwo(n) == IF n = 0 THEN 1 ELSE 2 * PowerOfTwo(n - 1)

\* C26 as claimed: an embedding call contacts the provider at most
\* max_retries times, waits between two attempts with exponentially growing
\* delays, and returns the empty vector on failure; for an empty or blank
\* text it returns the empty vector without contacting the provider.
C26_BoundedBackoff ==
    Embedded =>
        /\ Cardinality(ContactsAt) <= last.max_retries
        /\ last.ret \in {0, EMBEDDING_DIM}
        /\ (\A i \in 1..Len(last.responses) : last.responses[i] # "embedding")
              => last.ret = 0
        /\ (\A i \in 1..Len(last.text) : last.text[i] = " ") =>
              /\ last.trace = <<>>
              /\ last.ret = 0
        \* a wait between two attempts
        /\ \A i \in ContactsAt :
              (i + 1) \in DOMAIN last.trace => last.trace[i + 1].kind = "sleep"
        \* the waits double
        /\ \A k \in 1..Len(Delays) : Delays[k].delay = PowerOfTwo(k - 1)

(***************************************************************************)
(* Properties of the migration run (specification SpecStore).              *)
(***************************************************************************)
\* the number of records processed before position p of the trace
RecordsBefore(trace, p) ==
    Cardinality({q \in 1..(p - 1) : trace[q].kind = "record"})

\* the positions of the pauses of the trace
PausesAt(trace) == {p \in 1..Len(trace) : trace[p].kind = "sleep"}

\* C27: a run over n selected records with batch size b processes the
\* records one after the other in selection order; a pause comes only after
\* the last record of a batch and before the first record of the next, never
\* between two records of one batch nor after the final batch: there are
\* exactly ceil(n/b) - 1 pauses.
C27_PausesBetweenBatches ==
    (Migrated /\ last.kind = "done") =>
        LET n == Len(last.selected)
            b == last.batch_size
            records == RecordEvents(last.trace)
        IN  /\ Len(records) = n
            /\ \A k \in 1..n : records[k].id = last.selected[k]
            /\ \A k \in 1..n : records[k].batch = ((k - 1) \div b) + 1
            /\ Cardinality(PausesAt(last.trace)) = ((n + b - 1) \div b) - 1
            /\ \A p \in PausesAt(last.trace) :
                  /\ p > 1 /\ p < Len(last.trace)
                  /\ last.trace[p - 1].kind = "record"
                  /\ last.trace[p + 1].kind = "record"
                  /\ last.trace[p - 1].batch + 1 = last.trace[p + 1].batch
                  /\ RecordsBefore(last.trace, p) % b = 0
            /\ \A p \in 1..(Len(last.trace) - 1) :
                  (last.trace[p].kind = "record" /\ last.trace[p + 1].kind = "record")
                  => last.trace[p].batch = last.trace[p + 1].batch

\* C27 witness: two records migrated in batches of one, with one pause
\* between them.
C27_Witness ==
    /\ Migrated
    /\ last.kind = "done"
    /\ last.batch_size = 1
    /\ Len(last.selected) = 2
    /\ Len(last.trace) = 3
    /\ last.trace[1].kind = "record"
    /\ last.trace[2].kind = "sleep"
    /\ last.trace[3].kind = "record"

\* the records a run changed
ModifiedByRun == {i \in 1..Len(last.before) : collection[i] # last.before[i]}

\* the records of the run whose failure was recorded
MarkedByRun ==
    {last.trace[p].id : p \in {q \in 1..Len(last.trace) :
                                  /\ last.trace[q].kind = "record"
                                  /\ last.trace[q].outcome = "marked"}}

EmbeddedConsistent(doc) ==
    HasEmbedding(doc) =>
        /\ "embedding" \in DOMAIN doc
        /\ doc.embedding > 0
        /\ "version" \in DOMAIN doc
        /\ doc.version = "2.0"

\* C30 as claimed: under every interleaving of two migration runs and of
\* saves, a record whose has_embedding has become true never has it set back
\* to false, and in every intermediate state has_embedding = true implies a
\* non-empty embedding and version 2.0.
C30_ConcurrentMigration ==
    [][/\ \A i \in Ids : HasEmbedding(collection[i]) => HasEmbedding(collection'[i])
       /\ \A i \in 1..Len(collection') : EmbeddedConsistent(collection'[i])]_vars

=============================================================================
